---- MODULE Spec2Model ----
(***************************************************************************)
(* Model of the Plane -> Discord webhook bridge (src/main.go).             *)
(*                                                                         *)
(* Every HTTP request is served by its own goroutine running               *)
(* webhookHandler.  The handlers share the debounce map lastUpdated, the   *)
(* mutex mu, the wall clock and the outbound Discord endpoint.  A handler  *)
(* is modelled as a process with one step for each statement that touches  *)
(* shared state: mu.Lock, the reading of the clock, the test of            *)
(* lastUpdated, its write with mu.Unlock, the call of http.Post and its    *)
(* return.  The computation local to the goroutine before the first such   *)
(* statement is part of the step that receives the request; the whitelist  *)
(* and the rendering of an update, which follow mu.Unlock, are a step of   *)
(* their own.                                                              *)
(*                                                                         *)
(* JSON values are tagged tuples, Go strings are TLA+ strings.  Three      *)
(* characters of the source's string literals cannot be written in a TLA+  *)
(* string and are transliterated, each always the same way:                *)
(*    the backquote is written ', the arrow U+2192 is written ->, and the  *)
(*    coloured circle in front of a priority label is written [colour].    *)
(***************************************************************************)
EXTENDS Integers, Sequences, FiniteSets, TLC

(***************************************************************************)
(* Bounds of the model.                                                    *)
(***************************************************************************)
NHandlers == 2      \* concurrent webhookHandler invocations
MaxTicks == 2       \* seconds the wall clock may advance
StartTime == 10     \* time.Now().Unix() at start-up (Unix time, 2 or more)

(***************************************************************************)
(* Program constants.                                                      *)
(***************************************************************************)
DebounceWindow == 2
StatusOK == 200
StatusForbidden == 403
ColorCreated == 8184715
ColorDeleted == 16415088
ColorUpdated == 4093438
\* A wrong accent: a comment in the color of an update.
ColorCommentAsUpdated == ColorUpdated

ColorComment == 8184715

WorkspaceName == "Workspace"
AppURL == "https://plane.so"

(***************************************************************************)
(* JSON values as encoding/json decodes them into interface{}: nil (an     *)
(* absent key and JSON null are the same nil on a map read), string,       *)
(* float64, bool, []interface{} and map[string]interface{}.  A float64 is  *)
(* an integer n (Num) or the decimal n / 10^k with k >= 1 decimals, the    *)
(* last of them not 0 (Frac); both of at most 15 significant digits, which *)
(* float64 holds and prints back exactly.                                  *)
(***************************************************************************)
Nil == <<"nil">>
Str(s) == <<"str", s>>
Num(n) == <<"num", n>>
Frac(n, k) == <<"frac", n, k>>
Bool(b) == <<"bool", b>>
Arr(s) == <<"arr", s>>
Obj(m) == <<"obj", m>>

\* A nil map[string]interface{}.
NilMap == <<>>

\* m[k] on a map[string]interface{}: nil when the key is absent or m is nil.
Index(m, k) == IF k \in DOMAIN m THEN m[k] ELSE Nil

\* v.(string), comma-ok form with the ok dropped: "" unless v is a string.
AsString(v) == IF v[1] = "str" THEN v[2] ELSE ""

\* v.(string) as the ok flag.
IsString(v) == v[1] = "str"

\* v.(map[string]interface{}): the nil map unless v is an object.
AsMap(v) == IF v[1] = "obj" THEN v[2] ELSE NilMap

\* v.(map[string]interface{}) as the ok flag.
IsMap(v) == v[1] = "obj"

\* v.([]interface{}): the nil slice unless v is an array.
AsSlice(v) == IF v[1] = "arr" THEN v[2] ELSE <<>>

RECURSIVE JoinWith(_, _)
\* The strings of a sequence joined with a separator.
JoinWith(strs, sep) ==
    IF strs = <<>> THEN ""
    ELSE IF Len(strs) = 1 THEN strs[1]
    ELSE strs[1] \o sep \o JoinWith(Tail(strs), sep)

\* The printable ASCII characters in the order of their bytes.
Chars ==
    " !\"#$%&'()*+,-./0123456789:;<=>?@ABCDEFGHIJKLMNOPQRSTUVWXYZ[\\]^_abcdefghijklmnopqrstuvwxyz{|}~"

CharCode(c) == CHOOSE i \in 1..Len(Chars) : SubSeq(Chars, i, i) = c

RECURSIVE StrLess(_, _)
\* a < b on Go strings: the order of their bytes.
StrLess(a, b) ==
    IF b = "" THEN FALSE
    ELSE IF a = "" THEN TRUE
    ELSE IF SubSeq(a, 1, 1) = SubSeq(b, 1, 1)
         THEN StrLess(SubSeq(a, 2, Len(a)), SubSeq(b, 2, Len(b)))
         ELSE CharCode(SubSeq(a, 1, 1)) < CharCode(SubSeq(b, 1, 1))

RECURSIVE SortedSeq(_)
\* The strings of a set in increasing order.
SortedSeq(keys) ==
    IF keys = {} THEN <<>>
    ELSE LET least == CHOOSE k \in keys : \A j \in keys \ {k} : StrLess(k, j)
         IN <<least>> \o SortedSeq(keys \ {least})

\* The keys of a map in the order fmt prints them (sorted).
SortedKeys(m) == SortedSeq(DOMAIN m)

RECURSIVE StripZeros(_)
\* The digits d without their trailing zeros.
StripZeros(d) ==
    IF Len(d) > 1 /\ SubSeq(d, Len(d), Len(d)) = "0"
    THEN StripZeros(SubSeq(d, 1, Len(d) - 1))
    ELSE d

RECURSIVE Zeros(_)
Zeros(n) == IF n <= 0 THEN "" ELSE "0" \o Zeros(n - 1)

\* strconv.FormatFloat(f, 'g', -1, 64) of the non-zero f = 0.d * 10^dp, d
\* its shortest digits: %e when the exponent is < -4 or >= 6, else %f.
FormatG(neg, d, dp) ==
    LET nd == Len(d)
        exp == dp - 1
        abs == IF exp < 0 THEN 0 - exp ELSE exp
        sign == IF neg THEN "-" ELSE ""
    IN IF exp < -4 \/ exp >= 6
       THEN sign \o SubSeq(d, 1, 1)
            \o (IF nd > 1 THEN "." \o SubSeq(d, 2, nd) ELSE "")
            \o "e" \o (IF exp < 0 THEN "-" ELSE "+")
            \o (IF abs < 10 THEN "0" ELSE "") \o ToString(abs)
       ELSE sign
            \o (IF dp > 0
                THEN (IF nd >= dp THEN SubSeq(d, 1, dp)
                      ELSE d \o Zeros(dp - nd))
                ELSE "0")
            \o (IF nd > dp
                THEN "." \o Zeros(0 - dp)
                     \o SubSeq(d, (IF dp > 0 THEN dp + 1 ELSE 1), nd)
                ELSE "")

\* fmt.Sprintf("%v", f) of the float64 n / 10^k.
FmtFloat(n, k) ==
    LET abs == IF n < 0 THEN 0 - n ELSE n
        all == ToString(abs)
    IN IF n = 0 THEN "0"
       ELSE FormatG(n < 0, StripZeros(all), Len(all) - k)

RECURSIVE Fmt(_)
\* fmt.Sprintf("%v", v) of a decoded JSON value.
Fmt(v) ==
    CASE v[1] = "nil" -> "<nil>"
      [] v[1] = "str" -> v[2]
      [] v[1] = "num" -> FmtFloat(v[2], 0)
      [] v[1] = "frac" -> FmtFloat(v[2], v[3])
      [] v[1] = "bool" -> (IF v[2] THEN "true" ELSE "false")
      [] v[1] = "arr" ->
           "[" \o JoinWith([i \in 1..Len(v[2]) |-> Fmt(v[2][i])], " ") \o "]"
      [] v[1] = "obj" ->
           LET keys == SortedKeys(v[2])
           IN "map[" \o JoinWith([i \in 1..Len(keys) |->
                                    keys[i] \o ":" \o Fmt(v[2][keys[i]])], " ")
                     \o "]"

\* The raw request body: the bytes of a JSON document, or bytes that are
\* no JSON at all.
Garbage == <<"garbage">>

\* json.Unmarshal(body, &p) with p a nil map and the error dropped: p is
\* filled only when the body is a JSON object.
Unmarshal(body) == AsMap(body)

(***************************************************************************)
(* State.                                                                  *)
(***************************************************************************)
VARIABLES
    WebhookSecret,  \* the WEBHOOK_SECRET the process was started with
    lastUpdated,    \* map[string]int64: key -> Unix time of the last accepted update
    mu,             \* sync.Mutex: 0 when unlocked, else the handler holding it
    clock,          \* the wall clock in whole seconds, time.Now().Unix()
    inputs,         \* which callers there are: "core" or "single"
    pc,             \* pc[h]: where handler h stands in webhookHandler
    req,            \* req[h]: the request h serves (raw body, x-plane-signature)
    now,            \* now[h]: the local variable now of the "updated" case
    embed,          \* embed[h]: the local variable embed
    status,         \* status[h]: the status code written to the caller, 0 before
    outcome,        \* outcome[h]: the path on which h left webhookHandler
    sent,           \* sent[h]: the embeds h has passed to sendToDiscord, in order
    postErr,        \* postErr[h]: whether http.Post returned an error to h
    order           \* the handlers in the order they entered the critical section

vars == << WebhookSecret, lastUpdated, mu, clock, inputs, pc, req, now, embed,
           status, outcome, sent, postErr, order >>

(***************************************************************************)
(* Signature verification.                                                 *)
(***************************************************************************)
\* hmac.New(sha256.New, key) over msg: the digest, a keyed function
\* injective in (key, msg).
HMACSHA256(key, msg) == <<"hmac", key, msg>>

\* hex.EncodeToString(digest): the lower-case hex string of the digest.
HexEncodeToString(digest) == <<"hex", digest>>

\* A header value that is the hex string of no digest ("" when h is "").
RawHeader(h) == <<"raw", h>>

\* hmac.Equal(a, b): equality of the two byte strings.
HmacEqual(a, b) == a = b

\* A wrong verifier: skips the comparison.
verifySignatureAcceptAll(body, signature) == TRUE

\* A wrong verifier: an empty secret no longer disables the check.
verifySignatureNoBypass(body, signature) ==
    HmacEqual(HexEncodeToString(HMACSHA256(WebhookSecret, body)), signature)

verifySignature(body, signature) ==
    IF WebhookSecret = "" THEN TRUE
    ELSE LET expected == HexEncodeToString(HMACSHA256(WebhookSecret, body))
         IN HmacEqual(expected, signature)

(***************************************************************************)
(* Extraction of the fields webhookHandler reads from the decoded body p.  *)
(***************************************************************************)
Event(p) == AsString(Index(p, "event"))
Action(p) == AsString(Index(p, "action"))
Data(p) == AsMap(Index(p, "data"))
Activity(p) == AsMap(Index(p, "activity"))
Actor(p) == AsMap(Index(Activity(p), "actor"))
ActorName(p) == AsString(Index(Actor(p), "display_name"))

\* s with AppURL in front when s starts with "/".
\* A wrong prefix: put in front of every reference.
AbsolutizeAlways(s) == IF s # "" THEN AppURL \o s ELSE s

Absolutize(s) ==
    IF s # "" /\ SubSeq(s, 1, 1) = "/" THEN AppURL \o s ELSE s

\* A wrong lookup: avatar_url is not consulted.
AvatarOfNoFallback(m) == AsString(Index(m, "avatar"))

\* m["avatar"], or m["avatar_url"] when that is no non-empty string.
AvatarOf(m) ==
    LET a == AsString(Index(m, "avatar"))
    IN IF a = "" THEN AsString(Index(m, "avatar_url")) ELSE a

ActorIcon(p) == Absolutize(AvatarOf(Actor(p)))

priorities(code) ==
    CASE code = "urgent" -> "[red] Urgent!"
      [] code = "high" -> "[orange] High"
      [] code = "medium" -> "[yellow] Medium"
      [] code = "low" -> "[blue] Low"
      [] code = "none" -> "[black] None"
      [] OTHER -> ""

\* The embed as webhookHandler builds it before it looks at the event.
BaseEmbed(p) ==
    [ Title |-> "",
      Description |-> "",
      Color |-> 0,
      AuthorName |-> IF ActorName(p) # "" THEN ActorName(p) ELSE WorkspaceName,
      AuthorIconURL |-> IF ActorName(p) # "" /\ ActorIcon(p) # ""
                        THEN ActorIcon(p)
                        ELSE AppURL \o "/img/plane-icon.png",
      Thumbnail |-> "",
      FooterText |-> "Plane Bridge",
      Fields |-> <<>> ]

\* The zero DiscordEmbed.
ZeroEmbed ==
    [ Title |-> "", Description |-> "", Color |-> 0, AuthorName |-> "",
      AuthorIconURL |-> "", Thumbnail |-> "", FooterText |-> "",
      Fields |-> <<>> ]

EmbedField(name, value, inline) ==
    [ Name |-> name, Value |-> value, Inline |-> inline ]

IssueID(p) == Fmt(Index(Data(p), "id"))
IssueName(p) == AsString(Index(Data(p), "name"))

\* case "created".
CreatedEmbed(p) ==
    LET e == BaseEmbed(p)
    IN [ e EXCEPT
           !.AuthorName = IF ActorName(p) # ""
                          THEN ActorName(p) \o " created an issue" ELSE @,
           !.Color = ColorCreated,
           !.Title = IssueName(p),
           !.Description = Fmt(Index(Data(p), "description_stripped")),
           !.Fields = Append(@, EmbedField("Priority",
                         priorities(AsString(Index(Data(p), "priority"))), TRUE)) ]

\* case "deleted".
DeletedEmbed(p) ==
    LET e == BaseEmbed(p)
    IN [ e EXCEPT
           !.AuthorName = IF ActorName(p) # ""
                          THEN ActorName(p) \o " deleted an issue"
                          ELSE "Work item deleted",
           !.Color = ColorDeleted,
           !.Description = "ID: '" \o IssueID(p) \o "'" ]

\* A wrong fallback: no title when the comment names no issue.
DefaultIssueNameEmpty == ""

\* The title of a comment whose issue_detail carries no string name.
DefaultIssueName == "Issue Update"

\* event == "issue_comment".
CommentEmbed(p) ==
    LET e == BaseEmbed(p)
        detail == Index(Data(p), "issue_detail")
        issueName == IF IsMap(detail) /\ IsString(Index(AsMap(detail), "name"))
                     THEN AsString(Index(AsMap(detail), "name"))
                     ELSE DefaultIssueName
    IN [ e EXCEPT
           !.Color = ColorComment,
           !.AuthorName = IF ActorName(p) # ""
                          THEN ActorName(p) \o " commented" ELSE "New Comment",
           !.Description = AsString(Index(Data(p), "comment_stripped")),
           !.Title = issueName,
           !.Fields = Append(@, EmbedField("Issue ID",
                                           Fmt(Index(Data(p), "issue")), TRUE)) ]

(***************************************************************************)
(* case "updated": the whitelist and the normalisation of the change.      *)
(***************************************************************************)
Field(p) == Fmt(Index(Activity(p), "field"))

\* A wrong whitelist: lets every field through.
allowedEverything(field) == TRUE

allowed(field) ==
    field \in { "name", "priority", "state", "state_id", "assignee_ids",
                "target_date", "parent", "estimate_point" }

\* The display names of the assignees that are objects with a string
\* display_name, in order.
RECURSIVE AssigneeNames(_)
AssigneeNames(assignees) ==
    IF assignees = <<>> THEN <<>>
    ELSE LET a == Head(assignees)
             rest == AssigneeNames(Tail(assignees))
         IN IF IsMap(a) /\ IsString(Index(AsMap(a), "display_name"))
            THEN <<AsString(Index(AsMap(a), "display_name"))>> \o rest
            ELSE rest

\* The display name of the changed field.
DisplayField(field) ==
    CASE field \in {"state_id", "state"} -> "State"
      [] field = "assignee_ids" -> "Assignees"
      [] OTHER -> field

\* The old value as shown in the "Change" field.
DisplayOld(p) ==
    LET field == Field(p)
        raw == Fmt(Index(Activity(p), "old_value"))
    IN CASE field = "priority" -> priorities(raw)
         [] field \in {"state_id", "state"} ->
              (IF raw = "null" \/ raw = "<nil>" THEN "None" ELSE "Changed")
         [] field = "assignee_ids" ->
              (IF raw = "[]" \/ raw = "null" \/ raw = "<nil>"
               THEN "None" ELSE "Previously set")
         [] OTHER -> raw

\* The new value as shown in the "Change" field.
DisplayNew(p) ==
    LET field == Field(p)
        raw == Fmt(Index(Activity(p), "new_value"))
        st == Index(Data(p), "state")
        names == AssigneeNames(AsSlice(Index(Data(p), "assignees")))
    IN CASE field = "priority" -> priorities(raw)
         [] field \in {"state_id", "state"} ->
              (IF IsMap(st) THEN AsString(Index(AsMap(st), "name")) ELSE raw)
         [] field = "assignee_ids" ->
              (IF Len(names) > 0 THEN JoinWith(names, ", ") ELSE "None")
         [] OTHER -> raw

\* The thumbnail: the first assignee's avatar on a change of assignee_ids.
ThumbnailOf(p) ==
    LET assignees == AsSlice(Index(Data(p), "assignees"))
    IN IF Field(p) = "assignee_ids" /\ Len(assignees) > 0 /\ IsMap(assignees[1])
       THEN Absolutize(AvatarOf(AsMap(assignees[1])))
       ELSE ""

\* The embed of an update that passed the whitelist.
UpdatedEmbed(p) ==
    LET e == BaseEmbed(p)
    IN [ e EXCEPT
           !.Color = ColorUpdated,
           !.Title = IssueName(p),
           !.Thumbnail = ThumbnailOf(p),
           !.Description = "Field **" \o DisplayField(Field(p)) \o "** changed.",
           !.Fields = Append(@, EmbedField("Change",
                         "'" \o DisplayOld(p) \o "' -> '" \o DisplayNew(p) \o "'",
                         FALSE)) ]

\* A wrong "empty content" test: nothing is ever skipped.
IsEmptyEmbedNever(e) == FALSE

\* The "empty content" test in front of sendToDiscord.
IsEmptyEmbed(e) == e.Title = "" /\ e.Description = ""

(***************************************************************************)
(* The dispatch on event and action.                                       *)
(***************************************************************************)
\* A wrong dispatch: the switch has no default, an unknown action of an
\* issue event falls into case "updated".
ClassifyUnknownAsUpdated(p) ==
    IF Event(p) = "issue"
    THEN (IF Action(p) \in {"created", "deleted"} THEN Action(p) ELSE "updated")
    ELSE IF Event(p) = "issue_comment" THEN "comment" ELSE "unhandled"

\* A wrong dispatch: every event is taken through the debounce of
\* case "updated".
ClassifyAllAsUpdated(p) == "updated"

\* The branch of webhookHandler that serves the decoded body p.
Classify(p) ==
    IF Event(p) = "issue"
    THEN (IF Action(p) \in {"created", "deleted", "updated"}
          THEN Action(p) ELSE "ignored")
    ELSE IF Event(p) = "issue_comment" THEN "comment" ELSE "unhandled"

(***************************************************************************)
(* The debounce map.                                                       *)
(***************************************************************************)
\* lastUpdated[key]: the zero value when the key is absent.
LastOf(key) == IF key \in DOMAIN lastUpdated THEN lastUpdated[key] ELSE 0

\* A wrong window test: the bound of the window is off by one.
TooSoonOffByOne(t, last) == t < last + DebounceWindow - 1

\* now < lastUpdated[issueID]+2
TooSoon(t, last) == t < last + DebounceWindow

\* A broken mutex: Lock never waits.
MayLockAlways(h) == TRUE

\* mu.Lock() returns only when no handler holds mu.
MayLock(h) == mu = 0

\* A wrong acknowledgment: the delivery error reaches the caller.
AckAfterDeliveryPropagate(err) == IF err THEN 502 ELSE StatusOK

\* The status written after sendToDiscord has returned.
AckAfterDelivery(err) == StatusOK

\* The status the caller gets when webhookHandler returns: net/http sends
\* 200 when the handler wrote none.
ReturnStatus(s) == IF s = 0 THEN StatusOK ELSE s

(***************************************************************************)
(* The requests the callers send.                                          *)
(***************************************************************************)
\* The secrets the process may be configured with ("" disables the check).
Secrets == {"", "k1"}

\* The keys a caller may sign with.
CallerKeys == {"k1", "k2"}

\* A request whose x-plane-signature is the caller's HMAC of the body.
Signed(key, body) ==
    [ body |-> body, signature |-> HexEncodeToString(HMACSHA256(key, body)) ]

\* A request whose x-plane-signature was computed over another body.
Replayed(key, body, other) ==
    [ body |-> body, signature |-> HexEncodeToString(HMACSHA256(key, other)) ]

\* A request without the x-plane-signature header.
Unsigned(body) == [ body |-> body, signature |-> RawHeader("") ]

Doc(event, action, data, activity) ==
    Obj("event" :> event @@ "action" :> action
        @@ "data" :> data @@ "activity" :> activity)

\* A user with a root-relative avatar.
Ann == Obj("display_name" :> Str("Ann") @@ "avatar" :> Str("/a.png"))

\* Users with an absolute avatar, with an avatar_url only, without avatar,
\* with an empty and without display name.
Bob == Obj("display_name" :> Str("Bob")
           @@ "avatar" :> Str("https://cdn.example/b.png"))
Cy == Obj("display_name" :> Str("Cy") @@ "avatar" :> Str("")
          @@ "avatar_url" :> Str("/c.png"))
Dee == Obj("display_name" :> Str("Dee"))
Eve == Obj("display_name" :> Str("") @@ "avatar" :> Str("/e.png"))
Fay == Obj("avatar" :> Str("/f.png"))

Users == { Ann, Bob, Cy, Dee, Eve, Fay }

\* An "updated" issue event for the entity with the given data.
UpdateDoc(data, field, old, new) ==
    Doc(Str("issue"), Str("updated"), data,
        Obj("field" :> field @@ "old_value" :> old @@ "new_value" :> new))

\* An "updated" issue event with its acting user.
UpdateDocBy(data, field, old, new, actor) ==
    Doc(Str("issue"), Str("updated"), data,
        Obj("field" :> field @@ "old_value" :> old @@ "new_value" :> new
            @@ "actor" :> actor))

UpdateBody(id, field) ==
    UpdateDoc(Obj("id" :> id @@ "name" :> Str("Fix bug")), field,
              Str("low"), Str("high"))

CreateDoc(id, name, description, priority, activity) ==
    Doc(Str("issue"), Str("created"),
        Obj("id" :> id @@ "name" :> name
            @@ "description_stripped" :> description
            @@ "priority" :> priority),
        activity)

CreateBody(id) ==
    CreateDoc(id, Str("Fix bug"), Str("desc"), Str("high"), Nil)

DeleteBody(id, activity) ==
    Doc(Str("issue"), Str("deleted"), Obj("id" :> id), activity)

CommentBody(comment, detail, activity) ==
    Doc(Str("issue_comment"), Str("created"),
        Obj("comment_stripped" :> comment @@ "issue" :> Str("1")
            @@ "issue_detail" :> detail),
        activity)

\* The requests of the concurrent system: bursts of updates for two
\* entities, with and without a whitelisted field, signed and not.
CoreBodies ==
    { UpdateBody(Str("1"), Str("priority")),
      UpdateBody(Str("1"), Str("name")),
      UpdateBody(Str("1"), Str("sort_order")),
      UpdateBody(Str("2"), Str("priority")) }

CoreRequests ==
    { Signed("k1", b) : b \in CoreBodies }
    \cup { Unsigned(UpdateBody(Str("1"), Str("priority"))) }

\* The requests of the concurrent system under mixed traffic: updates of
\* one entity among events that take each of the other paths through
\* webhookHandler.
MixedBodies ==
    { UpdateBody(Str("1"), Str("priority")),
      UpdateBody(Str("1"), Str("sort_order")),
      CreateBody(Str("1")),
      CreateDoc(Str("1"), Nil, Str(""), Nil, Nil),
      DeleteBody(Str("1"), Nil),
      CommentBody(Str("hello"), Nil, Nil),
      Doc(Str("issue"), Str("archived"), Obj("id" :> Str("1")), Nil),
      Doc(Str("project"), Str("created"), Nil, Nil) }

MixedRequests ==
    { Signed("k1", b) : b \in MixedBodies }
    \cup { Unsigned(UpdateBody(Str("1"), Str("priority"))) }

\* The names of the fields whose change is reported.
WhitelistedFields ==
    { "name", "priority", "state", "state_id", "assignee_ids", "target_date",
      "parent", "estimate_point" }

\* The bodies of the single-request system: every event and action, with
\* the fields they read present, absent, empty and of the wrong type.
Activities == { Nil } \cup { Obj("actor" :> u) : u \in Users }

CreatedBodies ==
    { CreateDoc(Str("1"), n, d, pr, act) :
        n \in {Nil, Str(""), Str("Fix bug")},
        d \in {Nil, Str(""), Str("desc"), Num(1000000)},
        pr \in {Nil, Str("high")},
        act \in Activities }

DeletedBodies ==
    { DeleteBody(id, act) :
        id \in {Nil, Str("1"), Num(7), Num(1000000)}, act \in Activities }

UpdatedDatas ==
    { Obj("id" :> Str("1") @@ "name" :> Str("Fix bug")),
      Obj("id" :> Str("1")
          @@ "state" :> Obj("name" :> Str("Done"))),
      Obj("id" :> Str("1") @@ "name" :> Str("Fix bug")
          @@ "assignees" :> Arr(<< Ann >>)) }

UpdatedBodies ==
    { UpdateDoc(d, f, old, Str("high")) :
        d \in UpdatedDatas,
        f \in {Nil, Num(5), Num(1000000), Arr(<<Str("name")>>), Str("sort_order")}
              \cup { Str(w) : w \in WhitelistedFields },
        old \in {Nil, Str("low"), Str("[]")} }

\* Updates with an acting user.
ActedUpdateBodies ==
    { UpdateDocBy(Obj("id" :> Str("1") @@ "name" :> Str("Fix bug")),
                  Str(f), Str("low"), Str("high"), u) :
        f \in {"priority", "sort_order"}, u \in Users }

\* Changes of the fields whose values are shown as they come, the old and
\* the new value present, absent and null.
PassThroughBodies ==
    { UpdateDoc(Obj("id" :> Str("1") @@ "name" :> Str("Fix bug")),
                Str(f), old, new) :
        f \in {"name", "target_date", "parent", "estimate_point"},
        old \in { Nil, Str("2024-01-01"), Num(3), Num(1000000), Frac(25, 1),
                  Obj("sequence_id" :> Num(4) @@ "name" :> Str("P")) },
        new \in {Nil, Str("2024-02-01"), Num(12345678)} }

\* data.assignees: absent, empty, not a list, and lists whose first entry
\* has each kind of avatar, or is no object.
AssigneeLists ==
    { Nil, Str("Ann"), Arr(<<>>), Arr(<< Ann >>), Arr(<< Bob, Ann >>),
      Arr(<< Cy, Bob >>), Arr(<< Dee, Ann >>), Arr(<< Str("x"), Ann >>),
      Arr(<< Fay >>), Arr(<< Ann, Fay, Cy >>) }

\* activity.old_value of a change of assignee_ids.
AssigneeOlds ==
    { Nil, Str("[]"), Arr(<<>>), Str("null"), Str(""), Str("[2]"),
      Arr(<< Num(2) >>) }

AssigneeBodies ==
    { UpdateDoc(Obj("id" :> Str("1") @@ "name" :> Str("Fix bug")
                    @@ "assignees" :> l),
                Str("assignee_ids"), old, Str("[3]")) :
        l \in AssigneeLists, old \in AssigneeOlds }

CommentBodies ==
    { CommentBody(c, detail, act) :
        c \in {Nil, Str(""), Str("hello"), Num(3)},
        detail \in { Nil, Str("Fix bug"), Obj(NilMap),
                     Obj("name" :> Num(3)), Obj("name" :> Str("")),
                     Obj("name" :> Str("Fix bug")) },
        act \in Activities }

\* A comment that does not name its issue.
OrphanCommentBodies ==
    { Doc(Str("issue_comment"), Str("created"),
          Obj("comment_stripped" :> Str("hello") @@ "issue" :> i), Nil) :
        i \in {Nil, Num(7), Num(1000000)} }

OtherBodies ==
    { Doc(Str("project"), Str("created"), Nil, Nil),
      Doc(Str("issue"), Str("archived"), Obj("id" :> Str("1")), Nil),
      Doc(Num(1), Str("updated"), Nil, Nil),
      Garbage, Arr(<<>>), Nil }

SingleBodies ==
    CreatedBodies \cup DeletedBodies \cup UpdatedBodies \cup CommentBodies
    \cup OtherBodies \cup ActedUpdateBodies \cup PassThroughBodies
    \cup AssigneeBodies \cup OrphanCommentBodies

\* Every body of the single-request system as its callers may send it:
\* signed with the right key, with another key, not at all, or with the
\* signature of another body.
SingleRequests ==
    { Signed(k, b) : k \in CallerKeys, b \in SingleBodies }
    \cup { Unsigned(b) : b \in SingleBodies }
    \cup { Replayed("k1", b, Garbage) : b \in SingleBodies \ {Garbage} }

\* Accepted updates among the requests webhookHandler does not serve:
\* unknown events and actions, bodies that are no JSON object.
UnknownRequests ==
    { Signed("k1", b) : b \in OtherBodies \cup {UpdateBody(Str("1"), Str("priority"))} }

\* A stream of updates of one entity, of a whitelisted field or not.
StreamRequests ==
    { Signed("k1", UpdateBody(Str("1"), Str(f))) : f \in {"priority", "sort_order"} }

\* Updates of entities whose data.id is absent, null, a number and the
\* string of its digits.
KeyDatas ==
    { Obj("name" :> Str("Fix bug")) }
    \cup { Obj("id" :> id @@ "name" :> Str("Fix bug")) :
             id \in { Nil, Num(1), Str("1") } }

KeyRequests ==
    { Signed("k1", UpdateDoc(d, Str("priority"), Str("low"), Str("high"))) :
        d \in KeyDatas }

\* Updates of entities whose data.id is a number of seven digits, the
\* string of its digits, and the string fmt prints for the number.
BigKeyDatas ==
    { Obj("id" :> id @@ "name" :> Str("Fix bug")) :
        id \in { Num(1000000), Str("1000000"), Str("1e+06") } }

BigKeyRequests ==
    { Signed("k1", UpdateDoc(d, Str("priority"), Str("low"), Str("high"))) :
        d \in BigKeyDatas }

\* The requests the callers of the given kind may send.
RequestsOf(callers) ==
    CASE callers = "single" -> SingleRequests
      [] callers = "unknown" -> UnknownRequests
      [] callers = "mixed" -> MixedRequests
      [] callers = "stream" -> StreamRequests
      [] callers = "keys" -> KeyRequests
      [] callers = "bigkeys" -> BigKeyRequests
      [] OTHER -> CoreRequests

(***************************************************************************)
(* webhookHandler, one process per request.                                *)
(***************************************************************************)
Handlers == DOMAIN pc

Body(h) == req[h].body
P(h) == Unmarshal(Body(h))

\* The handler leaves webhookHandler on the path named by how.
Return(h, how, code) ==
    /\ pc' = [pc EXCEPT ![h] = "done"]
    /\ outcome' = [outcome EXCEPT ![h] = how]
    /\ status' = [status EXCEPT ![h] = ReturnStatus(code)]

\* The end of webhookHandler once the embed e is built: the empty embed is
\* skipped with a 200, any other goes to sendToDiscord.
Finish(h, e) ==
    /\ embed' = [embed EXCEPT ![h] = e]
    /\ IF IsEmptyEmbed(e)
       THEN Return(h, "discarded", StatusOK)
       ELSE /\ pc' = [pc EXCEPT ![h] = "send"]
            /\ UNCHANGED << outcome, status >>

\* A request arrives (the handlers are numbered in the order of arrival of
\* their requests): the body is read, the signature verified, the body
\* decoded and the event classified, up to the first access to shared state.
Receive(h) ==
    /\ pc[h] = "idle"
    /\ \A g \in Handlers : g < h => pc[g] # "idle"
    /\ \E r \in RequestsOf(inputs) :
         /\ req' = [req EXCEPT ![h] = r]
         /\ LET p == Unmarshal(r.body)
            IN IF ~verifySignature(r.body, r.signature)
               THEN /\ Return(h, "rejected", StatusForbidden)
                    /\ UNCHANGED embed
               ELSE CASE Classify(p) = "created" -> Finish(h, CreatedEmbed(p))
                      [] Classify(p) = "deleted" -> Finish(h, DeletedEmbed(p))
                      [] Classify(p) = "updated" ->
                           /\ embed' = [embed EXCEPT ![h] = BaseEmbed(p)]
                           /\ pc' = [pc EXCEPT ![h] = "lock"]
                           /\ UNCHANGED << outcome, status >>
                      [] Classify(p) = "ignored" ->
                           /\ embed' = [embed EXCEPT ![h] = BaseEmbed(p)]
                           /\ Return(h, "ignored", 0)
                      [] Classify(p) = "comment" -> Finish(h, CommentEmbed(p))
                      [] OTHER ->
                           /\ embed' = [embed EXCEPT ![h] = BaseEmbed(p)]
                           /\ Return(h, "unhandled", StatusOK)
    /\ UNCHANGED << WebhookSecret, lastUpdated, mu, clock, inputs, now, sent,
                    postErr, order >>

\* mu.Lock()
Lock(h) ==
    /\ pc[h] = "lock"
    /\ MayLock(h)
    /\ mu' = h
    /\ order' = Append(order, h)
    /\ pc' = [pc EXCEPT ![h] = "now"]
    /\ UNCHANGED << WebhookSecret, lastUpdated, clock, inputs, req, now, embed,
                    status, outcome, sent, postErr >>

\* now := time.Now().Unix()
Now(h) ==
    /\ pc[h] = "now"
    /\ now' = [now EXCEPT ![h] = clock]
    /\ pc' = [pc EXCEPT ![h] = "check"]
    /\ UNCHANGED << WebhookSecret, lastUpdated, mu, clock, inputs, req, embed,
                    status, outcome, sent, postErr, order >>

\* A wrong debounce: the window slides, a rejected update restarts it.
CheckSliding(h) ==
    /\ pc[h] = "check"
    /\ IF TooSoon(now[h], LastOf(IssueID(P(h))))
       THEN /\ mu' = 0
            /\ lastUpdated' = (IssueID(P(h)) :> now[h]) @@ lastUpdated
            /\ Return(h, "debounced", 0)
       ELSE /\ pc' = [pc EXCEPT ![h] = "set"]
            /\ UNCHANGED << lastUpdated, mu, outcome, status >>
    /\ UNCHANGED << WebhookSecret, clock, inputs, req, now, embed, sent,
                    postErr, order >>

\* if now < lastUpdated[issueID]+2 { mu.Unlock(); return }
Check(h) ==
    /\ pc[h] = "check"
    /\ IF TooSoon(now[h], LastOf(IssueID(P(h))))
       THEN /\ mu' = 0
            /\ Return(h, "debounced", 0)
       ELSE /\ pc' = [pc EXCEPT ![h] = "set"]
            /\ UNCHANGED << mu, outcome, status >>
    /\ UNCHANGED << WebhookSecret, lastUpdated, clock, inputs, req, now, embed,
                    sent, postErr, order >>

\* lastUpdated[issueID] = now; mu.Unlock()
Set(h) ==
    /\ pc[h] = "set"
    /\ lastUpdated' = (IssueID(P(h)) :> now[h]) @@ lastUpdated
    /\ mu' = 0
    /\ pc' = [pc EXCEPT ![h] = "render"]
    /\ UNCHANGED << WebhookSecret, clock, inputs, req, now, embed, status,
                    outcome, sent, postErr, order >>

\* After the critical section: the whitelist, the normalisation and the
\* rendering of the change, the "empty content" test.
Render(h) ==
    /\ pc[h] = "render"
    /\ IF ~allowed(Field(P(h)))
       THEN /\ Return(h, "filtered", 0)
            /\ UNCHANGED embed
       ELSE Finish(h, UpdatedEmbed(P(h)))
    /\ UNCHANGED << WebhookSecret, lastUpdated, mu, clock, inputs, req, now,
                    sent, postErr, order >>

\* sendToDiscord(embed): the payload is built and http.Post is called.
Send(h) ==
    /\ pc[h] = "send"
    /\ sent' = [sent EXCEPT ![h] = Append(@, embed[h])]
    /\ pc' = [pc EXCEPT ![h] = "post"]
    /\ UNCHANGED << WebhookSecret, lastUpdated, mu, clock, inputs, req, now,
                    embed, status, outcome, postErr, order >>

\* http.Post returns, with an error or with a response; sendToDiscord
\* returns and the handler writes its status.
PostReturns(h) ==
    /\ pc[h] = "post"
    /\ \E err \in BOOLEAN :
         /\ postErr' = [postErr EXCEPT ![h] = err]
         /\ Return(h, "emitted", AckAfterDelivery(err))
    /\ UNCHANGED << WebhookSecret, lastUpdated, mu, clock, inputs, req, now,
                    embed, sent, order >>

\* A second passes on the wall clock.
Tick ==
    /\ clock < StartTime + MaxTicks
    /\ clock' = clock + 1
    /\ UNCHANGED << WebhookSecret, lastUpdated, mu, inputs, pc, req, now, embed,
                    status, outcome, sent, postErr, order >>

NoRequest == [ body |-> Garbage, signature |-> RawHeader("") ]

\* The process after start-up with the given handlers and callers,
\* configured with one of the given secrets.
InitWith(hs, callers, secrets) ==
    /\ WebhookSecret \in secrets
    /\ lastUpdated = <<>>
    /\ mu = 0
    /\ clock = StartTime
    /\ inputs = callers
    /\ pc = [h \in hs |-> "idle"]
    /\ req = [h \in hs |-> NoRequest]
    /\ now = [h \in hs |-> 0]
    /\ embed = [h \in hs |-> ZeroEmbed]
    /\ status = [h \in hs |-> 0]
    /\ outcome = [h \in hs |-> "none"]
    /\ sent = [h \in hs |-> <<>>]
    /\ postErr = [h \in hs |-> FALSE]
    /\ order = <<>>

\* The concurrent system, signature verification enabled.
Init == InitWith(1..NHandlers, "core", {"k1"})

\* The process serving a single request.
InitSingle == InitWith({1}, "single", Secrets)

\* The concurrent system under mixed traffic.
InitMixed == InitWith(1..NHandlers, "mixed", {"k1"})

\* The concurrent system among requests it does not serve.
InitUnknown == InitWith(1..NHandlers, "unknown", {"k1"})

\* The concurrent system under a stream of updates of one entity, one
\* handler more than in the other concurrent systems.
InitStream == InitWith(1..(NHandlers + 1), "stream", {"k1"})

\* The concurrent system under updates of entities of every kind of id.
InitKeys ==
    \E callers \in {"keys", "bigkeys"} : InitWith(1..NHandlers, callers, {"k1"})

Next ==
    \/ \E h \in Handlers : Receive(h)
    \/ \E h \in Handlers : Lock(h)
    \/ \E h \in Handlers : Now(h)
    \/ \E h \in Handlers : Check(h)
    \/ \E h \in Handlers : Set(h)
    \/ \E h \in Handlers : Render(h)
    \/ \E h \in Handlers : Send(h)
    \/ \E h \in Handlers : PostReturns(h)
    \/ Tick

Spec == Init /\ [][Next]_vars

SpecSingle == InitSingle /\ [][Next]_vars

SpecMixed == InitMixed /\ [][Next]_vars

SpecUnknown == InitUnknown /\ [][Next]_vars

SpecStream == InitStream /\ [][Next]_vars

SpecKeys == InitKeys /\ [][Next]_vars

\* The goroutines are scheduled fairly and a released mutex is handed to a
\* waiting handler; nothing makes a request arrive, the clock advance or
\* http.Post return (http.DefaultClient has no timeout).
Fairness ==
    \A h \in 1..NHandlers :
        /\ SF_vars(Lock(h))
        /\ WF_vars(Now(h))
        /\ WF_vars(Check(h))
        /\ WF_vars(Set(h))
        /\ WF_vars(Render(h))
        /\ WF_vars(Send(h))

SpecLive == Init /\ [][Next]_vars /\ Fairness

(***************************************************************************)
(* Vocabulary of the properties.                                           *)
(***************************************************************************)
\* h has a request whose signature was verified.
Authenticated(h) == pc[h] # "idle" /\ outcome[h] # "rejected"

\* h serves an authenticated event="issue", action="updated" request.
IsUpdate(h) ==
    /\ Authenticated(h)
    /\ Index(P(h), "event") = Str("issue")
    /\ Index(P(h), "action") = Str("updated")

\* The entity identifier of h's request in its textual form.
Key(h) == Fmt(Index(Data(P(h)), "id"))

\* activity.field of h's request is a string naming a whitelisted field.
Whitelisted(h) ==
    \E w \in WhitelistedFields : Index(Activity(P(h)), "field") = Str(w)

\* h's update passed the debounce filter.
Passed(h) ==
    \/ pc[h] \in {"set", "render", "send", "post"}
    \/ pc[h] = "done" /\ outcome[h] \in {"filtered", "discarded", "emitted"}

\* h has taken its decision on delivery.
Settled(h) == pc[h] \in {"post", "done"}

\* h has called sendToDiscord.
Delivered(h) == sent[h] # <<>>

\* h has been through Lock; its place among the handlers that have.
Entered(h) == \E i \in 1..Len(order) : order[i] = h
Pos(h) == CHOOSE i \in 1..Len(order) : order[i] = h

\* b is the next update after a for the same entity identifier.
NextUpdateAfter(a, b) ==
    /\ a # b /\ IsUpdate(a) /\ IsUpdate(b) /\ Key(a) = Key(b)
    /\ Entered(a) /\ Entered(b) /\ Pos(a) < Pos(b)
    /\ \A c \in Handlers :
         Entered(c) /\ Pos(a) < Pos(c) /\ Pos(c) < Pos(b) => Key(c) # Key(a)

\* The signature h received is the hex HMAC-SHA256 of the body it received
\* under the configured secret.
GoodSignature(h) ==
    req[h].signature = HexEncodeToString(HMACSHA256(WebhookSecret, req[h].body))

(***************************************************************************)
(* C1.  Two whitelisted updates for one entity identifier, none for that   *)
(* identifier between them, the first accepted by the debounce filter: if  *)
(* the second reads the clock less than 2 seconds after the first, exactly *)
(* one of the two (the first) is handed to sendToDiscord; if 2 seconds or  *)
(* more, both are.  The fields changed may be the same or differ.          *)
(***************************************************************************)
C1_DebouncePair ==
    \A a, b \in Handlers :
        ( /\ NextUpdateAfter(a, b)
          /\ Whitelisted(a) /\ Whitelisted(b)
          /\ Passed(a)
          /\ Settled(a) /\ Settled(b) )
        => IF now[b] < now[a] + 2
           THEN Delivered(a) /\ ~Delivered(b)
           ELSE Delivered(a) /\ Delivered(b)

\* Two updates of different fields of one entity one second apart, both
\* finished: the first was delivered, the second dropped.
C1_Witness ==
    \E a, b \in Handlers :
        /\ NextUpdateAfter(a, b)
        /\ Whitelisted(a) /\ Whitelisted(b)
        /\ Field(P(a)) # Field(P(b))
        /\ pc[a] = "done" /\ pc[b] = "done"
        /\ now[b] = now[a] + 1
        /\ Delivered(a) /\ outcome[b] = "debounced" /\ ~Delivered(b)

(***************************************************************************)
(* C2.  The check and the set of one request are atomic with respect to    *)
(* every other request: of any two updates for one entity identifier that  *)
(* both passed the debounce filter, the clock readings are at least 2      *)
(* seconds apart, so at most one update passes per 2-second window.        *)
(***************************************************************************)
C2_AtMostOnePerWindow ==
    \A a, b \in Handlers :
        ( /\ a # b /\ IsUpdate(a) /\ IsUpdate(b) /\ Key(a) = Key(b)
          /\ Passed(a) /\ Passed(b) )
        => \/ now[a] - now[b] >= 2
           \/ now[b] - now[a] >= 2

\* One handler is inside the critical section, past the check, while
\* another one for the same entity waits for the mutex.
C2_Witness ==
    \E a, b \in Handlers :
        /\ a # b /\ IsUpdate(a) /\ IsUpdate(b) /\ Key(a) = Key(b)
        /\ pc[a] = "set" /\ mu = a
        /\ pc[b] = "lock"

(***************************************************************************)
(* C3.  An update whose field is not whitelisted is dropped without side   *)
(* effect: no step of its handler changes lastUpdated.                     *)
(***************************************************************************)
C3_FilteredUpdateLeavesMap ==
    [][ \A h \in Handlers :
          ( /\ pc[h] # "idle" /\ pc'[h] # pc[h]
            /\ IsUpdate(h) /\ ~Whitelisted(h) )
          => lastUpdated' = lastUpdated ]_vars

(***************************************************************************)
(* C4.  With a non-empty secret, a request whose signature is not the hex  *)
(* HMAC-SHA256 of its body is rejected: the handler is finished, the       *)
(* caller has a 403, sendToDiscord was not called, the handler never       *)
(* entered the critical section, and every entry of lastUpdated is the     *)
(* clock reading of an authenticated update that passed the filter.        *)
(***************************************************************************)
C4_BadSignatureRejected ==
    /\ \A h \in Handlers :
         (pc[h] # "idle" /\ WebhookSecret # "" /\ ~GoodSignature(h))
         => /\ pc[h] = "done"
            /\ outcome[h] = "rejected"
            /\ status[h] = StatusForbidden
            /\ sent[h] = <<>>
            /\ ~Entered(h)
    /\ \A k \in DOMAIN lastUpdated :
         \E g \in Handlers :
            /\ IsUpdate(g) /\ Key(g) = k /\ Passed(g)
            /\ now[g] = lastUpdated[k]
            /\ (WebhookSecret = "" \/ GoodSignature(g))

\* A well-formed update of a whitelisted field without a valid signature
\* was rejected although the entity had not been updated in the window.
C4_Witness ==
    \E h \in Handlers :
        /\ WebhookSecret # ""
        /\ req[h] = Unsigned(UpdateBody(Str("1"), Str("priority")))
        /\ pc[h] = "done" /\ status[h] = StatusForbidden
        /\ \E g \in Handlers : g # h /\ pc[g] = "done" /\ outcome[g] = "emitted"

(***************************************************************************)
(* C5.  verifySignature accepts a request if and only if the secret is     *)
(* empty or the signature is the hex HMAC-SHA256 of the body under the     *)
(* secret.  A signature made with another key or over another body is      *)
(* refused under a non-empty secret; under the empty secret every          *)
(* request is accepted.                                                    *)
(***************************************************************************)
C5_VerifySignature ==
    \A h \in Handlers :
        pc[h] # "idle" =>
            /\ (outcome[h] # "rejected") <=> (WebhookSecret = "" \/ GoodSignature(h))
            /\ WebhookSecret = "" => outcome[h] # "rejected"
            /\ \A k \in CallerKeys :
                 ( /\ WebhookSecret # ""
                   /\ \/ k # WebhookSecret /\ req[h] = Signed(k, req[h].body)
                      \/ /\ req[h].body # Garbage
                         /\ req[h] = Replayed(k, req[h].body, Garbage)
                      \/ req[h] = Unsigned(req[h].body) )
                 => outcome[h] = "rejected"
            /\ ( WebhookSecret # "" /\ req[h] = Signed(WebhookSecret, req[h].body) )
               => outcome[h] # "rejected"

\* Under the empty secret a request without signature went through.
C5_Witness ==
    \E h \in Handlers :
        /\ WebhookSecret = ""
        /\ req[h].signature = RawHeader("")
        /\ pc[h] = "done" /\ outcome[h] = "emitted"

(***************************************************************************)
(* C6.  A request whose signature was verified is acknowledged with 200    *)
(* and with nothing else, on every path and whether http.Post returned an  *)
(* error or not; 403 is written for a rejected signature only.             *)
(***************************************************************************)
C6_AuthenticatedGets200 ==
    \A h \in Handlers :
        /\ Authenticated(h) => status[h] \in {0, StatusOK}
        /\ (Authenticated(h) /\ pc[h] = "done") => status[h] = StatusOK
        /\ status[h] = StatusForbidden <=> (pc[h] # "idle" /\ outcome[h] = "rejected")
        /\ pc[h] = "done" =>
             outcome[h] \in { "rejected", "unhandled", "ignored", "debounced",
                              "filtered", "discarded", "emitted" }

\* A request was emitted, http.Post failed, and the caller has its 200,
\* while another request was dropped by the debounce filter with a 200.
C6_Witness ==
    \E h, g \in Handlers :
        /\ pc[h] = "done" /\ outcome[h] = "emitted" /\ postErr[h]
        /\ status[h] = StatusOK
        /\ pc[g] = "done" /\ outcome[g] = "debounced" /\ status[g] = StatusOK

(***************************************************************************)
(* C7.  The acknowledgment does not wait for the delivery call: every      *)
(* authenticated request is eventually acknowledged, even if http.Post     *)
(* never returns.                                                          *)
(***************************************************************************)
C7_AckDoesNotWaitForDelivery ==
    \A h \in 1..NHandlers :
        (pc[h] # "idle" /\ outcome[h] # "rejected") ~> (status[h] # 0)

(***************************************************************************)
(* C8.  No embed with an empty title and an empty description is ever      *)
(* passed to sendToDiscord.                                                *)
(***************************************************************************)
C8_NoEmptyEmbedSent ==
    \A h \in Handlers :
        \A i \in 1..Len(sent[h]) :
            sent[h][i].Title # "" \/ sent[h][i].Description # ""

\* A created issue without name and with an empty description was built
\* into an empty embed and skipped.
C8_Witness ==
    \E h \in Handlers :
        /\ pc[h] = "done" /\ outcome[h] = "discarded"
        /\ Event(P(h)) = "issue" /\ Action(P(h)) = "created"
        /\ embed[h].Title = "" /\ embed[h].Description = ""
        /\ sent[h] = <<>>

(***************************************************************************)
(* C9.  Comments with an empty stripped body.                              *)
(***************************************************************************)
\* h serves an authenticated event="issue_comment" request.
IsComment(h) ==
    Authenticated(h) /\ Index(P(h), "event") = Str("issue_comment")

\* data.comment_stripped of h's request is absent, no string, or "".
EmptyCommentBody(h) ==
    LET c == Index(Data(P(h)), "comment_stripped")
    IN ~IsString(c) \/ c = Str("")

\* data.issue_detail of h's request is absent or has no string name.
NoIssueTitle(h) ==
    LET d == Index(Data(P(h)), "issue_detail")
    IN ~IsMap(d) \/ ~IsString(Index(AsMap(d), "name"))

\* data.issue_detail.name of h's request is the empty string.
EmptyIssueTitle(h) ==
    LET d == Index(Data(P(h)), "issue_detail")
    IN IsMap(d) /\ Index(AsMap(d), "name") = Str("")

\* C9 as claimed: a comment with an empty stripped body and no resolvable
\* issue title is discarded, sendToDiscord is not called for it.
C9_UntitledEmptyCommentDiscarded ==
    \A h \in Handlers :
        (IsComment(h) /\ EmptyCommentBody(h) /\ NoIssueTitle(h))
        => sent[h] = <<>>

\* C9 amended: a comment with an empty stripped body is discarded when
\* data.issue_detail.name is the empty string; when no issue title is
\* resolvable the title is "Issue Update" and the embed, with an empty
\* description, is passed to sendToDiscord.
C9_EmptyCommentDiscardedOnlyWithEmptyTitle ==
    \A h \in Handlers :
        /\ (IsComment(h) /\ EmptyCommentBody(h) /\ EmptyIssueTitle(h))
           => /\ sent[h] = <<>>
              /\ pc[h] = "done" /\ outcome[h] = "discarded"
        /\ (IsComment(h) /\ EmptyCommentBody(h) /\ NoIssueTitle(h))
           => /\ pc[h] \in {"send", "post", "done"}
              /\ embed[h].Title = "Issue Update"
              /\ embed[h].Description = ""
              /\ Settled(h) => sent[h] = << embed[h] >>
              /\ pc[h] = "done" => outcome[h] = "emitted"

\* A comment with an empty body on an issue whose name is "" was skipped.
C9_Witness ==
    \E h \in Handlers :
        /\ IsComment(h) /\ EmptyCommentBody(h) /\ EmptyIssueTitle(h)
        /\ pc[h] = "done" /\ outcome[h] = "discarded" /\ status[h] = StatusOK

(***************************************************************************)
(* C10.  An update is handed to sendToDiscord only if activity.field is a  *)
(* string naming a whitelisted field; and an update of a whitelisted       *)
(* field is handed to sendToDiscord unless an update notification for the  *)
(* same entity identifier was accepted (passed both filters) before it,    *)
(* less than 2 seconds from it.                                            *)
(***************************************************************************)
\* a's update became a notification: it passed the debounce filter and the
\* whitelist.
AcceptedNotification(a) == IsUpdate(a) /\ Passed(a) /\ Whitelisted(a)

C10_WhitelistedUpdateEmits ==
    /\ \A h \in Handlers : (IsUpdate(h) /\ Delivered(h)) => Whitelisted(h)
    /\ \A b \in Handlers :
         ( /\ IsUpdate(b) /\ Whitelisted(b) /\ pc[b] = "done"
           /\ ~ \E a \in Handlers :
                  /\ a # b /\ AcceptedNotification(a) /\ Key(a) = Key(b)
                  /\ Entered(a) /\ Pos(a) < Pos(b)
                  /\ now[b] - now[a] < 2 /\ now[a] - now[b] < 2 )
         => Delivered(b)

(***************************************************************************)
(* C11.  An authenticated request whose event is neither "issue" nor       *)
(* "issue_comment" (a body that is no JSON object has no event), or whose  *)
(* event is "issue" with an action other than created, deleted and updated,*)
(* is served in one step that ends the handler: no call of sendToDiscord,  *)
(* lastUpdated and mu as they were, status 200.                            *)
(***************************************************************************)
\* The request r is not one webhookHandler serves.
Unrecognized(r) ==
    LET ev == Index(Unmarshal(r.body), "event")
        ac == Index(Unmarshal(r.body), "action")
    IN \/ ev \notin { Str("issue"), Str("issue_comment") }
       \/ /\ ev = Str("issue")
          /\ ac \notin { Str("created"), Str("deleted"), Str("updated") }

C11_UnrecognizedAcknowledged ==
    [][ \A h \in Handlers :
          ( /\ pc[h] = "idle" /\ pc'[h] # "idle"
            /\ verifySignature(req'[h].body, req'[h].signature)
            /\ Unrecognized(req'[h]) )
          => /\ pc'[h] = "done"
             /\ status'[h] = StatusOK
             /\ sent'[h] = <<>>
             /\ lastUpdated' = lastUpdated
             /\ mu' = mu ]_vars

\* A body that is no JSON object was acknowledged with 200 while the map
\* held the entry of an update accepted before it.
C11_Witness ==
    \E g, h \in Handlers :
        /\ g < h /\ IsUpdate(g) /\ Key(g) \in DOMAIN lastUpdated
        /\ pc[h] = "done" /\ req[h].body = Garbage /\ GoodSignature(h)
        /\ status[h] = StatusOK /\ sent[h] = <<>> /\ ~Entered(h)

(***************************************************************************)
(* C12.  The accent color of a document handed to sendToDiscord depends on *)
(* event and action only.  As claimed: one color for an issue creation, a  *)
(* second for a deletion, a third shared by issue updates and comments.    *)
(* As the code has it: a comment has the color of a creation, an update    *)
(* has the third color alone.                                              *)
(***************************************************************************)
\* h serves an authenticated issue event with the given action.
IsIssue(h, action) ==
    /\ Authenticated(h)
    /\ Index(P(h), "event") = Str("issue")
    /\ Index(P(h), "action") = Str(action)

\* The color of the document h handed to sendToDiscord.
SentColor(h) == sent[h][1].Color

\* The three accents differ.
ThreeColors ==
    /\ ColorCreated # ColorDeleted
    /\ ColorCreated # ColorUpdated
    /\ ColorDeleted # ColorUpdated

\* The claim as stated: a comment is colored as an update.
C12_CommentColoredAsUpdate ==
    /\ ThreeColors
    /\ \A h \in Handlers :
         Delivered(h) =>
           /\ IsIssue(h, "created") => SentColor(h) = ColorCreated
           /\ IsIssue(h, "deleted") => SentColor(h) = ColorDeleted
           /\ IsIssue(h, "updated") => SentColor(h) = ColorUpdated
           /\ IsComment(h) => /\ SentColor(h) = ColorUpdated
                              /\ SentColor(h) # ColorCreated

\* The claim amended: a comment is colored as a creation.
C12_CommentColoredAsCreation ==
    /\ ThreeColors
    /\ \A h \in Handlers :
         Delivered(h) =>
           /\ IsIssue(h, "created") => SentColor(h) = ColorCreated
           /\ IsIssue(h, "deleted") => SentColor(h) = ColorDeleted
           /\ IsIssue(h, "updated") => SentColor(h) = ColorUpdated
           /\ IsComment(h) => /\ SentColor(h) = ColorCreated
                              /\ SentColor(h) # ColorUpdated

\* A comment document was handed to sendToDiscord.
C12_Witness ==
    \E h \in Handlers :
        /\ IsComment(h) /\ Delivered(h)
        /\ sent[h][1].Description = "hello"

(***************************************************************************)
(* C13.  Wherever a document handed to sendToDiscord shows a value that is *)
(* absent or null in the request (the old or new value of a change of      *)
(* name, target_date, parent or estimate_point, the description of a       *)
(* created issue, the identifier of a deleted issue, the issue of a        *)
(* comment), it shows the one sentinel "None".                             *)
(***************************************************************************)
\* The text shown for v when an absent value is shown as the sentinel.
ShownWith(sentinel, v) == IF v = Nil THEN sentinel ELSE Fmt(v)

\* The fields whose old and new value are shown as they come.
PassThroughFields == { "name", "target_date", "parent", "estimate_point" }

\* Every call site shows an absent value as the sentinel.
NilShownAs(sentinel) ==
    \A h \in Handlers :
        Delivered(h) =>
          LET e == sent[h][1]
              d == Data(P(h))
              a == Activity(P(h))
          IN /\ IsIssue(h, "created") =>
                  e.Description = ShownWith(sentinel, Index(d, "description_stripped"))
             /\ IsIssue(h, "deleted") =>
                  e.Description = "ID: '" \o ShownWith(sentinel, Index(d, "id")) \o "'"
             /\ IsComment(h) =>
                  e.Fields[1].Value = ShownWith(sentinel, Index(d, "issue"))
             /\ ( /\ IsIssue(h, "updated")
                  /\ \E f \in PassThroughFields : Index(a, "field") = Str(f) ) =>
                  e.Fields[1].Value =
                      "'" \o ShownWith(sentinel, Index(a, "old_value")) \o "' -> '"
                      \o ShownWith(sentinel, Index(a, "new_value")) \o "'"

\* The claim as stated.
C13_NilShownAsNone == NilShownAs("None")

\* What fmt.Sprintf("%v", nil) gives at each of these call sites.
C13_NilShownAsGoNil == NilShownAs("<nil>")

(***************************************************************************)
(* C14.  The author block of a document handed to sendToDiscord.  As       *)
(* claimed: without acting user (activity.actor.display_name absent or     *)
(* empty) the workspace name and the workspace icon, whatever the event;   *)
(* with one, "<actor> created an issue", "<actor> deleted an issue" or     *)
(* "<actor> commented" and the actor's avatar, prefixed with AppURL when   *)
(* it starts with "/".  As the code has it: without acting user a deletion *)
(* is signed "Work item deleted" and a comment "New Comment"; an update is *)
(* signed with the bare actor name; an actor without avatar leaves the     *)
(* workspace icon.                                                         *)
(***************************************************************************)
\* activity.actor of h's request, and its display name ("" when none).
ActingUser(h) == AsMap(Index(Activity(P(h)), "actor"))
ActingName(h) == AsString(Index(ActingUser(h), "display_name"))

\* The avatar reference the user record m carries ("" when none).
AvatarRef(m) ==
    IF AsString(Index(m, "avatar")) # ""
    THEN AsString(Index(m, "avatar"))
    ELSE AsString(Index(m, "avatar_url"))

\* The reference ref, prefixed with AppURL when it is root-relative.
Prefixed(ref) ==
    IF ref # "" /\ SubSeq(ref, 1, 1) = "/" THEN AppURL \o ref ELSE ref

WorkspaceIcon == AppURL \o "/img/plane-icon.png"

\* The author names the claim and the code agree on.
ActorPhrases(h, e) ==
    ActingName(h) # "" =>
      /\ IsIssue(h, "created") =>
           e.AuthorName = ActingName(h) \o " created an issue"
      /\ IsIssue(h, "deleted") =>
           e.AuthorName = ActingName(h) \o " deleted an issue"
      /\ IsComment(h) => e.AuthorName = ActingName(h) \o " commented"

\* The claim as stated.
C14_AuthorWorkspaceOrActor ==
    \A h \in Handlers :
        Delivered(h) =>
          LET e == sent[h][1]
          IN /\ ActorPhrases(h, e)
             /\ ActingName(h) = "" =>
                  /\ e.AuthorName = WorkspaceName
                  /\ e.AuthorIconURL = WorkspaceIcon
             /\ ActingName(h) # "" =>
                  e.AuthorIconURL = Prefixed(AvatarRef(ActingUser(h)))

\* The claim amended.
C14_AuthorBlock ==
    \A h \in Handlers :
        Delivered(h) =>
          LET e == sent[h][1]
          IN /\ ActorPhrases(h, e)
             /\ ActingName(h) # "" /\ IsIssue(h, "updated") =>
                  e.AuthorName = ActingName(h)
             /\ ActingName(h) = "" =>
                  /\ e.AuthorIconURL = WorkspaceIcon
                  /\ IsIssue(h, "created") \/ IsIssue(h, "updated") =>
                       e.AuthorName = WorkspaceName
                  /\ IsIssue(h, "deleted") => e.AuthorName = "Work item deleted"
                  /\ IsComment(h) => e.AuthorName = "New Comment"
             /\ ActingName(h) # "" =>
                  e.AuthorIconURL =
                      IF AvatarRef(ActingUser(h)) # ""
                      THEN Prefixed(AvatarRef(ActingUser(h)))
                      ELSE WorkspaceIcon

\* A deletion without acting user, or a comment of a user whose avatar is
\* an absolute URL, was handed to sendToDiscord.
C14_Witness ==
    \E h \in Handlers :
        /\ Delivered(h)
        /\ \/ /\ IsIssue(h, "deleted") /\ ActingName(h) = ""
              /\ sent[h][1].AuthorName = "Work item deleted"
           \/ /\ IsComment(h) /\ ActingUser(h) = AsMap(Bob)
              /\ sent[h][1].AuthorName = "Bob commented"
              /\ sent[h][1].AuthorIconURL = "https://cdn.example/b.png"

(***************************************************************************)
(* C15.  The document of an accepted update of assignee_ids.  With at      *)
(* least one assignee in data.assignees the thumbnail is the first         *)
(* assignee's avatar reference (avatar, else avatar_url; none when it has  *)
(* neither), prefixed with AppURL when root-relative, and the new value is *)
(* the display names of the assignees joined with ", " ("None" when no     *)
(* assignee has one); with no assignee there is no thumbnail and the new   *)
(* value is "None".  The old value is "None" when the raw old value is     *)
(* absent, null or the empty list (as a list or as the texts "[]" and      *)
(* "null"), "Previously set" for any other, the empty string included.     *)
(***************************************************************************)
\* What the document shows for each data.assignees of AssigneeLists: the
\* new value and the thumbnail ("" for none).
ExpectedAssignees(l) ==
    CASE l = Arr(<< Ann >>) ->
           [ new |-> "Ann", thumb |-> "https://plane.so/a.png" ]
      [] l = Arr(<< Bob, Ann >>) ->
           [ new |-> "Bob, Ann", thumb |-> "https://cdn.example/b.png" ]
      [] l = Arr(<< Cy, Bob >>) ->
           [ new |-> "Cy, Bob", thumb |-> "https://plane.so/c.png" ]
      [] l = Arr(<< Dee, Ann >>) -> [ new |-> "Dee, Ann", thumb |-> "" ]
      [] l = Arr(<< Str("x"), Ann >>) -> [ new |-> "Ann", thumb |-> "" ]
      [] l = Arr(<< Fay >>) ->
           [ new |-> "None", thumb |-> "https://plane.so/f.png" ]
      [] l = Arr(<< Ann, Fay, Cy >>) ->
           [ new |-> "Ann, Cy", thumb |-> "https://plane.so/a.png" ]
      [] OTHER -> [ new |-> "None", thumb |-> "" ]

\* What the document shows for each activity.old_value of AssigneeOlds.
ExpectedOld(old) ==
    IF old \in { Nil, Str("[]"), Arr(<<>>), Str("null") }
    THEN "None" ELSE "Previously set"

\* h serves an update whose activity.field is "assignee_ids".
IsAssigneeUpdate(h) ==
    IsIssue(h, "updated") /\ Index(Activity(P(h)), "field") = Str("assignee_ids")

C15_AssigneeChange ==
    \A h \in Handlers :
        IsAssigneeUpdate(h) /\ Delivered(h) =>
          LET e == sent[h][1]
              x == ExpectedAssignees(Index(Data(P(h)), "assignees"))
              old == ExpectedOld(Index(Activity(P(h)), "old_value"))
          IN /\ e.Thumbnail = x.thumb
             /\ e.Description = "Field **Assignees** changed."
             /\ Len(e.Fields) = 1
             /\ e.Fields[1].Name = "Change"
             /\ e.Fields[1].Value = "'" \o old \o "' -> '" \o x.new \o "'"

\* The change from no assignee to Cy and Bob was handed to sendToDiscord,
\* with Cy's avatar_url as thumbnail.
C15_Witness ==
    \E h \in Handlers :
        /\ IsAssigneeUpdate(h) /\ Delivered(h)
        /\ Index(Data(P(h)), "assignees") = Arr(<< Cy, Bob >>)
        /\ Index(Activity(P(h)), "old_value") = Str("[]")
        /\ sent[h][1].Thumbnail = "https://plane.so/c.png"
        /\ sent[h][1].Fields[1].Value = "'None' -> 'Cy, Bob'"

(***************************************************************************)
(* C16.  Every run of webhookHandler goes received -> authenticated ->     *)
(* classified -> {suppressed | normalized} -> rendered -> {emitted |       *)
(* discarded} and ends in one of rejected, suppressed, discarded, emitted: *)
(* a handler that has not ended can take a step, or waits for a mutex      *)
(* whose holder can; sendToDiscord is called at most once, only on the way *)
(* to emitted, and only for a request whose signature was verified and,    *)
(* for an update, that passed the debounce and the whitelist.              *)
(***************************************************************************)
\* The terminal outcome of the handler h, "none" while it has none; a
\* handler is emitted from its call of sendToDiscord on.
Terminal(h) ==
    CASE pc[h] = "post" -> "emitted"
      [] pc[h] = "done" /\ outcome[h] = "emitted" -> "emitted"
      [] pc[h] = "done" /\ outcome[h] = "rejected" -> "rejected"
      [] pc[h] = "done" /\ outcome[h] \in {"debounced", "filtered"} ->
           "suppressed"
      [] pc[h] = "done" /\ outcome[h] \in {"unhandled", "ignored", "discarded"} ->
           "discarded"
      [] OTHER -> "none"

\* h can take a step, or waits for mu while its holder can.
CanProceed(h) ==
    \/ ENABLED (Lock(h) \/ Now(h) \/ Check(h) \/ Set(h) \/ Render(h) \/ Send(h))
    \/ /\ pc[h] = "lock" /\ mu \in Handlers \ {h}
       /\ ENABLED (Now(mu) \/ Check(mu) \/ Set(mu))

C16_Outcomes ==
    \A h \in Handlers :
        /\ pc[h] # "idle" /\ Terminal(h) = "none" => CanProceed(h)
        /\ pc[h] = "done" => Terminal(h) # "none"
        /\ Terminal(h) = "rejected" <=> pc[h] # "idle" /\ ~GoodSignature(h)
        /\ Terminal(h) = "suppressed" => IsUpdate(h)
        /\ Len(sent[h]) <= 1
        /\ Delivered(h) <=> Terminal(h) = "emitted"
        /\ Delivered(h) => /\ GoodSignature(h)
                           /\ sent[h][1] = embed[h]
                           /\ ~IsEmptyEmbed(embed[h])
        /\ Delivered(h) /\ IsUpdate(h) =>
              /\ Whitelisted(h)
              /\ Entered(h) /\ mu # h
              /\ LastOf(Key(h)) >= now[h]

\* The order of the stages of one handler.
C16_Stages ==
    \A h \in Handlers :
        pc'[h] # pc[h] =>
          \/ pc[h] = "idle" /\ pc'[h] \in {"done", "lock", "send"}
          \/ pc[h] = "lock" /\ pc'[h] = "now"
          \/ pc[h] = "now" /\ pc'[h] = "check"
          \/ pc[h] = "check" /\ pc'[h] \in {"done", "set"}
          \/ pc[h] = "set" /\ pc'[h] = "render"
          \/ pc[h] = "render" /\ pc'[h] \in {"done", "send"}
          \/ pc[h] = "send" /\ pc'[h] = "post"
          \/ pc[h] = "post" /\ pc'[h] = "done"

C16_OneTerminalOutcome == []C16_Outcomes /\ [][C16_Stages]_vars

\* One update was handed to sendToDiscord once and acknowledged, the next
\* for the same entity was suppressed.
C16_Witness ==
    \E g, h \in Handlers :
        /\ NextUpdateAfter(g, h)
        /\ pc[g] = "done" /\ Terminal(g) = "emitted" /\ Len(sent[g]) = 1
        /\ Terminal(h) = "suppressed" /\ sent[h] = <<>>

(***************************************************************************)
(* C17.  mu is held for the check-and-set only: a handler holds mu exactly *)
(* between mu.Lock() and the mu.Unlock() of the reject or of the accept    *)
(* path, so at most one handler is between them, none holds mu when it     *)
(* returns or calls sendToDiscord, and lastUpdated is read and written by  *)
(* the holder of mu alone.  Hence a handler waiting in mu.Lock() finds mu  *)
(* free or held by a handler that can go on to release it, whatever calls  *)
(* of http.Post are pending.                                               *)
(***************************************************************************)
\* h is between mu.Lock() and mu.Unlock().
InCriticalSection(h) == pc[h] \in {"now", "check", "set"}

C17_LockDiscipline ==
    /\ mu \in Handlers \cup {0}
    /\ Cardinality({ h \in Handlers : InCriticalSection(h) }) <= 1
    /\ \A h \in Handlers :
         /\ mu = h <=> InCriticalSection(h)
         /\ pc[h] \in {"render", "send", "post", "done"} => mu # h
         /\ pc[h] = "lock" =>
              \/ ENABLED Lock(h)
              \/ /\ mu \in Handlers \ {h}
                 /\ InCriticalSection(mu)
                 /\ ENABLED (Now(mu) \/ Check(mu) \/ Set(mu))

\* A step that changes lastUpdated is the accept path of the holder of mu,
\* which releases mu; the reject path releases mu as well.
C17_HolderOnly ==
    /\ lastUpdated' # lastUpdated =>
         /\ mu \in Handlers /\ pc[mu] = "set" /\ pc'[mu] # "set"
         /\ mu' = 0
    /\ \A h \in Handlers :
         InCriticalSection(h) /\ ~InCriticalSection(h)' => mu = h /\ mu' = 0

C17_LockHeldForCheckAndSetOnly == []C17_LockDiscipline /\ [][C17_HolderOnly]_vars

\* A handler is in mu.Lock() with mu free while the http.Post of another
\* is pending.
C17_Witness ==
    \E g, h \in Handlers :
        /\ pc[g] = "post" /\ IsUpdate(g)
        /\ pc[h] = "lock" /\ mu = 0 /\ ENABLED Lock(h)

\* No handler stays in mu.Lock() forever.
C17_NoWaitForever ==
    \A h \in 1..NHandlers : (pc[h] = "lock") ~> (pc[h] # "lock")

(***************************************************************************)
(* C18.  Only event "issue", action "updated" requests touch lastUpdated:  *)
(* no step of a handler serving an issue created, issue deleted or         *)
(* issue_comment request changes the map or takes mu, and such a request   *)
(* is never suppressed, whatever the map holds for its entity: it is       *)
(* handed to sendToDiscord unless its title and description are empty.  No *)
(* step removes a key of the map.                                          *)
(***************************************************************************)
\* h serves an authenticated created, deleted or comment request.
NotAnUpdate(h) ==
    IsIssue(h, "created") \/ IsIssue(h, "deleted") \/ IsComment(h)

C18_NeverSuppressed ==
    \A h \in Handlers :
        NotAnUpdate(h) =>
          /\ ~Entered(h) /\ mu # h
          /\ pc[h] \in {"send", "post", "done"}
          /\ Terminal(h) # "suppressed"
          /\ pc[h] = "done" =>
               outcome[h] = IF IsEmptyEmbed(embed[h]) THEN "discarded" ELSE "emitted"

C18_MapUntouched ==
    /\ \A k \in DOMAIN lastUpdated : k \in DOMAIN lastUpdated'
    /\ \A h \in Handlers :
         pc'[h] # pc[h] /\ NotAnUpdate(h)' =>
           /\ lastUpdated' = lastUpdated
           /\ mu' = mu

C18_OnlyUpdatesTouchTheMap == []C18_NeverSuppressed /\ [][C18_MapUntouched]_vars

\* The deletion of entity "1" was handed to sendToDiscord in the second in
\* which an update of entity "1" was accepted.
C18_Witness ==
    \E g, h \in Handlers :
        /\ g < h /\ IsUpdate(g) /\ Passed(g) /\ Key(g) = "1"
        /\ LastOf("1") = clock /\ now[g] = clock
        /\ IsIssue(h, "deleted") /\ Key(h) = "1" /\ Delivered(h)

(***************************************************************************)
(* C19.  The window does not slide.  The reject path of the debounce       *)
(* leaves lastUpdated as it is; an entry of the map never decreases and,   *)
(* when it changes, grows by 2 or more; an update is accepted exactly when *)
(* it reads the clock 2 seconds or more after the last ACCEPTED update of  *)
(* its entity, however many were rejected since: of updates read at t,     *)
(* t+1, t+2 the third is accepted again.                                   *)
(***************************************************************************)
\* The clock reading of the last update of h's entity accepted before h
\* took mu, 0 when there is none.
LastAcceptedBefore(h) ==
    LET before == { g \in Handlers :
                      /\ IsUpdate(g) /\ Entered(g) /\ Pos(g) < Pos(h)
                      /\ Key(g) = Key(h) /\ Passed(g) }
    IN IF before = {} THEN 0
       ELSE CHOOSE t \in { now[g] : g \in before } :
                \A g \in before : now[g] <= t

C19_AcceptedByLastAccepted ==
    \A h \in Handlers :
        IsUpdate(h) /\ Entered(h) /\ pc[h] \notin {"now", "check"} =>
          /\ Passed(h) <=> now[h] >= LastAcceptedBefore(h) + DebounceWindow
          /\ ~Passed(h) <=> pc[h] = "done" /\ outcome[h] = "debounced"

C19_EntriesGrow ==
    /\ \A h \in Handlers :
         pc[h] = "check" /\ pc'[h] = "done" => lastUpdated' = lastUpdated
    /\ \A k \in DOMAIN lastUpdated :
         /\ k \in DOMAIN lastUpdated'
         /\ lastUpdated'[k] >= lastUpdated[k]
         /\ lastUpdated'[k] # lastUpdated[k] =>
              lastUpdated'[k] >= lastUpdated[k] + DebounceWindow

C19_WindowDoesNotSlide == []C19_AcceptedByLastAccepted /\ [][C19_EntriesGrow]_vars

\* Three updates of one entity read the clock at t, t+1 and t+2: the first
\* was accepted, the second rejected, the third accepted.
C19_Witness ==
    \E a, b, c \in Handlers :
        /\ NextUpdateAfter(a, b) /\ NextUpdateAfter(b, c)
        /\ now[b] = now[a] + 1 /\ now[c] = now[a] + 2
        /\ Passed(a)
        /\ pc[b] = "done" /\ outcome[b] = "debounced"
        /\ Passed(c) /\ LastOf(Key(c)) = now[c]

(***************************************************************************)
(* C20.  The key of the debounce is the textual form of data.id: an        *)
(* update is rejected exactly when an update whose data.id has the same    *)
(* textual form was accepted less than 2 seconds before it.  An absent and *)
(* a null id have one textual form.  As claimed, a number has the textual  *)
(* form of the string of its digits; as the code has it, that holds below  *)
(* 1000000 only: from there on fmt prints a float64 with an exponent, and  *)
(* the id 1000000 has the key "1e+06", not "1000000".                      *)
(***************************************************************************)
\* data.id of h's request.
IdOf(h) == Index(AsMap(Index(P(h), "data")), "id")

\* The textual form of data.id, a number written with its digits.
DigitsText(id) ==
    CASE id = Nil -> "<nil>"
      [] id = Num(1) -> "1"
      [] id = Num(1000000) -> "1000000"
      [] OTHER -> id[2]

\* The textual form of data.id as fmt.Sprintf("%v") prints it.
GoText(id) ==
    CASE id = Nil -> "<nil>"
      [] id = Num(1) -> "1"
      [] id = Num(1000000) -> "1e+06"
      [] OTHER -> id[2]

\* An update is rejected exactly when one of the same Text was accepted
\* less than 2 seconds before it; the keys of the map are the Texts of the
\* accepted updates.
KeyedBy(Text(_)) ==
    /\ \A b \in Handlers :
         IsUpdate(b) /\ Entered(b) /\ pc[b] \notin {"now", "check"} =>
           ( pc[b] = "done" /\ outcome[b] = "debounced"
             <=> \E a \in Handlers :
                   /\ IsUpdate(a) /\ Entered(a) /\ Pos(a) < Pos(b)
                   /\ Passed(a)
                   /\ Text(IdOf(a)) = Text(IdOf(b))
                   /\ now[b] < now[a] + DebounceWindow )
    /\ DOMAIN lastUpdated =
         { Text(IdOf(a)) : a \in { h \in Handlers :
                                     IsUpdate(h) /\ Passed(h) /\ pc[h] # "set" } }

\* The claim as stated.
C20_KeyIsTextOfId == KeyedBy(DigitsText)

\* The key the code uses.
C20_KeyIsGoTextOfId == KeyedBy(GoText)

\* An update without data.id was accepted and an update with a null
\* data.id, read less than 2 seconds later, was rejected.
C20_NoIdSharesKey ==
    \E a, b \in Handlers :
        /\ NextUpdateAfter(a, b) /\ now[b] < now[a] + DebounceWindow
        /\ Passed(a) /\ pc[b] = "done" /\ outcome[b] = "debounced"
        /\ "id" \notin DOMAIN AsMap(Index(P(a), "data"))
        /\ "id" \in DOMAIN AsMap(Index(P(b), "data"))
        /\ IdOf(b) = Nil

\* An update of entity 1000000 was accepted and an update of entity
\* "1000000", read in the same second, was accepted as well.
C20_BigIdHasOwnKey ==
    \E a, b \in Handlers :
        /\ IsUpdate(a) /\ IsUpdate(b)
        /\ Entered(a) /\ Entered(b) /\ Pos(a) < Pos(b)
        /\ IdOf(a) = Num(1000000) /\ IdOf(b) = Str("1000000")
        /\ now[a] = now[b] /\ Passed(a) /\ Passed(b)

====
